---- MODULE Spec2Model ----
(***************************************************************************)
(* Streaming audio front end of main.js: the 'data' handler of the         *)
(* microphone stream (wake-word scan over fixed-size frames, recording of  *)
(* the utterance), the voice-activity promise callbacks, and the           *)
(* finalization of a recorded segment (stopUserSpeechRecording and         *)
(* saveAudioToFile), and the callbacks of the transcription and reasoning  *)
(* requests that follow it.                                                *)
(*                                                                         *)
(* The microphone stream is the byte sequence ByteAt(1), ByteAt(2), ...;   *)
(* a 'data' event delivers the next n bytes of it, for any n.              *)
(***************************************************************************)
EXTENDS Integers, Sequences, FiniteSets, TLC

\* porcupine.frameLength (512 in the reference configuration), scaled down.
FrameLength == 2

\* Number of stream bytes the microphone delivers in one run of the model.
MaxBytes == 12

\* Largest number of vad.processAudio promises pending at once: the
\* microphone delivers no further chunk while this many are unsettled.
MaxPending == 2

\* Number of stream bytes delivered in a run that includes the downstream
\* callbacks.
PipelineBytes == 9

\* Number of frames fed in the frame-by-frame scenario.
ScenarioFrames == 10

\* frameLength * 2: bytes of one frame of 16-bit samples.
FrameBytes == FrameLength * 2

\* Largest chunk of one 'data' event: room for two whole frames and a rest.
MaxChunk == 2 * FrameBytes + 1

\* Value of the stream's p-th byte.  Distinct positions carry distinct
\* values, with high bytes on both sides of the sign bit.
ByteAt(p) == (p * 67) % 256

\* Stream position of a byte value (ByteAt is injective below 256).
PosOf(b) == CHOOSE p \in 1..255 : ByteAt(p) = b

\* The stream bytes at positions a..b, as one Buffer.
Stream(a, b) == [i \in 1..(b - a + 1) |-> ByteAt(a + i - 1)]

VARIABLES
  alive,         \* the node process is running
  isRecording,   \* let isRecording
  speechBuffer,  \* let speechBuffer: array of Buffers
  audioBuffer,   \* let audioBuffer: Buffer
  received,      \* number of stream bytes delivered in 'data' events so far
  vadPending,    \* vad.processAudio promises not settled yet: their chunk
                 \* and the number of the recording that submitted it
  scanned,       \* history: the Int16Array frames passed to porcupine.process
  wakes,         \* history: per wake event, stream position ending its frame
  finalized,     \* history: per stopUserSpeechRecording call, its audioData
  saves,         \* per stopUserSpeechRecording call, the stage of its cycle
  lastOp,        \* the callback that ran last, and its outcome
  recorded,      \* history: the chunks pushed to speechBuffer, by recording
  file,          \* audio data last written to 'user_speech.wav'
  sent,          \* per processUserSpeech call, the file content it read
  effects        \* history: <<cycle, what>> for each downstream call made

vars == <<alive, isRecording, speechBuffer, audioBuffer, received, vadPending,
          scanned, wakes, finalized, saves, lastOp, recorded, file, sent,
          effects>>

\* The variables of the downstream stages
downstream == <<file, sent, effects>>

----------------------------------------------------------------------------
\* Buffer and frame helpers

\* Buffer.concat(list)
RECURSIVE BufferConcat(_)
BufferConcat(list) ==
  IF list = <<>> THEN <<>> ELSE Head(list) \o BufferConcat(Tail(list))

\* audioBuffer.slice(0, frameLength * 2)
FrameOf(buf) == SubSeq(buf, 1, FrameBytes)

\* A slice that starts one byte late
RestOfSkipsByte(buf) == SubSeq(buf, FrameBytes + 2, Len(buf))

\* audioBuffer.slice(frameLength * 2)
RestOf(buf) == SubSeq(buf, FrameBytes + 1, Len(buf))

\* frame.readInt16LE(off): two bytes, low byte first, as a signed 16-bit value
ReadInt16LE(frame, off) ==
  LET u == frame[off + 1] + 256 * frame[off + 2]
  IN  IF u >= 32768 THEN u - 65536 ELSE u

\* the Int16Array pcm filled by the for loop over i < frameLength
ToPcm(frame) == [i \in 1..FrameLength |-> ReadInt16LE(frame, (i - 1) * 2)]

\* Results of porcupine.process: -1 (no keyword) or the keyword's index 0
KeywordIndex == {-1, 0}

\* The while loop without its break: scanning goes on after a keyword
RECURSIVE ScanLoopNoBreak(_, _, _)
ScanLoopNoBreak(buf, kw, i) ==
  IF Len(buf) >= FrameBytes
  THEN LET frame == FrameOf(buf)
           pcm   == ToPcm(frame)
           r     == ScanLoopNoBreak(RestOf(buf), kw, i + 1)
       IN  [buf |-> r.buf, frames |-> <<pcm>> \o r.frames,
            wakeEnds |-> IF kw[i] >= 0
                         THEN <<PosOf(frame[FrameBytes])>> \o r.wakeEnds
                         ELSE r.wakeEnds]
  ELSE [buf |-> buf, frames |-> <<>>, wakeEnds |-> <<>>]

\* The while loop with a wake that empties the buffer
RECURSIVE ScanLoopDropsRest(_, _, _)
ScanLoopDropsRest(buf, kw, i) ==
  IF Len(buf) >= FrameBytes
  THEN LET frame == FrameOf(buf)
           rest  == RestOf(buf)
           pcm   == ToPcm(frame)
       IN  IF kw[i] >= 0
           THEN [buf |-> <<>>, frames |-> <<pcm>>,
                 wakeEnds |-> <<PosOf(frame[FrameBytes])>>]
           ELSE LET r == ScanLoopDropsRest(rest, kw, i + 1)
                IN  [buf |-> r.buf, frames |-> <<pcm>> \o r.frames,
                     wakeEnds |-> r.wakeEnds]
  ELSE [buf |-> buf, frames |-> <<>>, wakeEnds |-> <<>>]

\* The while loop of the wake-word branch over the buffer buf, where kw[i]
\* is what porcupine.process returns for the i-th frame of this event.
\* Result: the audioBuffer left, the pcm frames passed to the scorer, and
\* for each call of startUserSpeechRecording the stream position that ends
\* the frame the keyword was reported on.
RECURSIVE ScanLoop(_, _, _)
ScanLoop(buf, kw, i) ==
  IF Len(buf) >= FrameBytes
  THEN LET frame == FrameOf(buf)
           rest  == RestOf(buf)
           pcm   == ToPcm(frame)
       IN  IF kw[i] >= 0
           THEN [buf |-> rest, frames |-> <<pcm>>,
                 wakeEnds |-> <<PosOf(frame[FrameBytes])>>]
           ELSE LET r == ScanLoop(rest, kw, i + 1)
                IN  [buf |-> r.buf, frames |-> <<pcm>> \o r.frames,
                     wakeEnds |-> r.wakeEnds]
  ELSE [buf |-> buf, frames |-> <<>>, wakeEnds |-> <<>>]

\* VAD.Event of node-vad
VadEvent == {"ERROR", "SILENCE", "VOICE", "NOISE"}

\* seq without its i-th element
RemoveAt(seq, i) == SubSeq(seq, 1, i - 1) \o SubSeq(seq, i + 1, Len(seq))

----------------------------------------------------------------------------
\* State after the module's top-level code has run (mic started)

Init ==
  /\ alive = TRUE
  /\ isRecording = FALSE
  /\ speechBuffer = <<>>
  /\ audioBuffer = <<>>
  /\ received = 0
  /\ vadPending = <<>>
  /\ scanned = <<>>
  /\ wakes = <<>>
  /\ finalized = <<>>
  /\ saves = <<>>
  /\ lastOp = "start"
  /\ recorded = <<>>
  /\ file = <<>>
  /\ sent = {}
  /\ effects = {}

----------------------------------------------------------------------------
\* The body of the wake-word branch for a chunk of n bytes: it runs
\* startUserSpeechRecording when the scorer reports a keyword
WakeWordBranch(n, kw) ==
  /\ LET data == Stream(received + 1, received + n)
         r    == ScanLoop(audioBuffer \o data, kw, 1)
     IN  /\ audioBuffer' = r.buf
         /\ scanned' = scanned \o r.frames
         /\ IF r.wakeEnds # <<>>
            THEN /\ isRecording' = TRUE
                 /\ speechBuffer' = <<>>
                 /\ wakes' = wakes \o r.wakeEnds
                 /\ lastOp' = "wake"
            ELSE /\ UNCHANGED <<isRecording, speechBuffer, wakes>>
                 /\ lastOp' = "scan"
  /\ received' = received + n
  /\ UNCHANGED <<alive, vadPending, finalized, saves, recorded, downstream>>

\* The stages in which a cycle waits for a downstream callback
PendingStage == {"writing", "transcribing", "reasoning"}

\* A handler that scans whatever the mode is
DataListeningAlways(n, kw) ==
  /\ alive
  /\ WakeWordBranch(n, kw)

\* A handler that waits for the downstream work of earlier cycles
DataListeningWhenIdle(n, kw) ==
  /\ alive
  /\ ~isRecording
  /\ \A k \in 1..Len(saves) : saves[k] \notin PendingStage
  /\ WakeWordBranch(n, kw)

\* micInputStream.on('data') when isRecording is false: the wake-word branch
DataListening(n, kw) ==
  /\ alive
  /\ ~isRecording
  /\ WakeWordBranch(n, kw)

\* A recording branch that keeps only the newest chunk
DataRecordingOverwrite(n) ==
  /\ alive
  /\ isRecording
  /\ LET data == Stream(received + 1, received + n)
         sub  == [data |-> data, rec |-> Len(wakes)]
     IN  /\ speechBuffer' = <<data>>
         /\ vadPending' = Append(vadPending, sub)
         /\ recorded' = Append(recorded, sub)
  /\ received' = received + n
  /\ lastOp' = "record"
  /\ UNCHANGED <<alive, isRecording, audioBuffer, scanned, wakes, finalized,
                 saves, downstream>>

\* micInputStream.on('data'), recording branch
DataRecording(n) ==
  /\ alive
  /\ isRecording
  /\ LET data == Stream(received + 1, received + n)
         sub  == [data |-> data, rec |-> Len(wakes)]
     IN  /\ speechBuffer' = Append(speechBuffer, data)
         /\ vadPending' = Append(vadPending, sub)
         /\ recorded' = Append(recorded, sub)
  /\ received' = received + n
  /\ lastOp' = "record"
  /\ UNCHANGED <<alive, isRecording, audioBuffer, scanned, wakes, finalized,
                 saves, downstream>>

\* The .then callback of vad.processAudio for the i-th pending promise,
\* resolved with res; on SILENCE it runs stopUserSpeechRecording, which
\* starts saveAudioToFile
VadResolve(i, res) ==
  /\ alive
  /\ i \in 1..Len(vadPending)
  /\ vadPending' = RemoveAt(vadPending, i)
  /\ IF res = "SILENCE"
     THEN /\ isRecording' = FALSE
          /\ finalized' = Append(finalized,
               [audio   |-> BufferConcat(speechBuffer),
                chunks  |-> Len(speechBuffer),
                rec     |-> Len(wakes),
                wakeEnd |-> wakes[Len(wakes)],
                trigRec |-> vadPending[i].rec,
                trigEnd |-> PosOf(vadPending[i].data[Len(vadPending[i].data)])])
          /\ saves' = Append(saves, "writing")
          /\ file' = BufferConcat(speechBuffer)
          /\ lastOp' = IF isRecording THEN "stop" ELSE "stopIdle"
     ELSE /\ UNCHANGED <<isRecording, finalized, saves, file>>
          /\ lastOp' = IF res = "ERROR" THEN "vadFail" ELSE "vadSpeech"
  /\ UNCHANGED <<alive, speechBuffer, audioBuffer, received, scanned, wakes,
                 recorded, sent, effects>>

\* The i-th pending vad.processAudio promise rejects: there is no rejection
\* handler, so no callback runs; the runtime either warns or ends the process
VadReject(i) ==
  /\ alive
  /\ i \in 1..Len(vadPending)
  /\ vadPending' = RemoveAt(vadPending, i)
  /\ alive' \in BOOLEAN
  /\ lastOp' = "vadFail"
  /\ UNCHANGED <<isRecording, speechBuffer, audioBuffer, received, scanned,
                 wakes, finalized, saves, recorded, downstream>>

\* fileWriter 'finish' listener of the k-th save: runs the callback, which
\* calls processUserSpeech: it opens 'user_speech.wav' for reading and starts
\* the transcription request with it.  Every save writes that one path, so
\* what is read is the audio of this save or of one started after it.
SaveFinish(k) ==
  /\ alive
  /\ k \in 1..Len(saves)
  /\ saves[k] = "writing"
  /\ saves' = [saves EXCEPT ![k] = "transcribing"]
  /\ \E j \in k..Len(finalized) :
       sent' = sent \cup {[cycle |-> k, audio |-> finalized[j].audio]}
  /\ lastOp' = "saved"
  /\ UNCHANGED <<alive, isRecording, speechBuffer, audioBuffer, received,
                 vadPending, scanned, wakes, finalized, recorded, file,
                 effects>>

\* The k-th save fails: fileWriter emits 'error', which has no listener, so
\* the event is thrown as an uncaught exception and the process ends
SaveError(k) ==
  /\ alive
  /\ k \in 1..Len(saves)
  /\ saves[k] = "writing"
  /\ saves' = [saves EXCEPT ![k] = "error"]
  /\ alive' = FALSE
  /\ lastOp' = "saveError"
  /\ UNCHANGED <<isRecording, speechBuffer, audioBuffer, received,
                 vadPending, scanned, wakes, finalized, recorded, downstream>>

\* The session state, which no downstream callback touches
session == <<alive, isRecording, speechBuffer, audioBuffer, received,
             vadPending, scanned, wakes, finalized, recorded, file, sent>>

\* The .then callback of groq.audio.transcriptions.create for cycle k: logs
\* the text and runs processTranscription, which starts the chat request
TranscribeOk(k) ==
  /\ alive
  /\ k \in 1..Len(saves)
  /\ saves[k] = "transcribing"
  /\ saves' = [saves EXCEPT ![k] = "reasoning"]
  /\ effects' = effects \cup {<<k, "reason">>}
  /\ lastOp' = "transcribed"
  /\ UNCHANGED session

\* A .catch callback that logs and goes on to processTranscription
TranscribeFailGoesOn(k) ==
  /\ alive
  /\ k \in 1..Len(saves)
  /\ saves[k] = "transcribing"
  /\ saves' = [saves EXCEPT ![k] = "reasoning"]
  /\ effects' = effects \cup {<<k, "logTranscriptionError">>, <<k, "reason">>}
  /\ lastOp' = "transcribeFail"
  /\ UNCHANGED session

\* The .catch callback of the transcription request of cycle k
TranscribeFail(k) ==
  /\ alive
  /\ k \in 1..Len(saves)
  /\ saves[k] = "transcribing"
  /\ saves' = [saves EXCEPT ![k] = "noTranscript"]
  /\ effects' = effects \cup {<<k, "logTranscriptionError">>}
  /\ lastOp' = "transcribeFail"
  /\ UNCHANGED session

\* The .then callback of chatSession.sendMessage for cycle k, which runs
\* handleGeminiResponse: say.speak when the parts carry text, setTimer
\* (which speaks and sets a timeout) when they carry a setTimer call
ReasonOk(k, hasText, hasTimer) ==
  /\ alive
  /\ k \in 1..Len(saves)
  /\ saves[k] = "reasoning"
  /\ saves' = [saves EXCEPT ![k] = "responded"]
  /\ effects' = effects
       \cup (IF hasText \/ hasTimer THEN {<<k, "speak">>} ELSE {})
       \cup (IF hasTimer THEN {<<k, "timer">>} ELSE {})
  /\ lastOp' = "responded"
  /\ UNCHANGED session

\* The .catch callback of chatSession.sendMessage for cycle k
ReasonFail(k) ==
  /\ alive
  /\ k \in 1..Len(saves)
  /\ saves[k] = "reasoning"
  /\ saves' = [saves EXCEPT ![k] = "noResponse"]
  /\ effects' = effects \cup {<<k, "logGeminiError">>}
  /\ lastOp' = "reasonFail"
  /\ UNCHANGED session

\* The callbacks of the audio front end, for a stream of limit bytes
FrontEnd(limit) ==
  \/ \E n \in 1..MaxChunk :
       \E kw \in [1..((Len(audioBuffer) + n) \div FrameBytes) -> KeywordIndex] :
         received + n <= limit /\ DataListening(n, kw)
  \/ \E n \in 1..MaxChunk :
       /\ received + n <= limit
       /\ Len(vadPending) < MaxPending
       /\ DataRecording(n)
  \/ \E i \in 1..Len(vadPending), res \in VadEvent : VadResolve(i, res)
  \/ \E i \in 1..Len(vadPending) : VadReject(i)
  \/ \E k \in 1..Len(saves) : SaveFinish(k)
  \/ \E k \in 1..Len(saves) : SaveError(k)

\* The callbacks of the transcription and reasoning requests
Downstream ==
  \/ \E k \in 1..Len(saves) : TranscribeOk(k)
  \/ \E k \in 1..Len(saves) : TranscribeFail(k)
  \/ \E k \in 1..Len(saves), hasText \in BOOLEAN, hasTimer \in BOOLEAN :
       ReasonOk(k, hasText, hasTimer)
  \/ \E k \in 1..Len(saves) : ReasonFail(k)

\* The front end alone: every cycle stops at its transcription request
Next == FrontEnd(MaxBytes)

Spec == Init /\ [][Next]_vars

\* The front end with the downstream callbacks, on a shorter stream
PipelineNext == FrontEnd(PipelineBytes) \/ Downstream

PipelineSpec == Init /\ [][PipelineNext]_vars

\* The scenario of one frame per chunk, each classification settled before
\* the next chunk arrives, with a classifier that answers VOICE or SILENCE
ScenarioNext ==
  \/ \E kw \in [1..1 -> KeywordIndex] :
       /\ vadPending = <<>>
       /\ received + FrameBytes <= ScenarioFrames * FrameBytes
       /\ DataListening(FrameBytes, kw)
  \/ /\ vadPending = <<>>
     /\ received + FrameBytes <= ScenarioFrames * FrameBytes
     /\ DataRecording(FrameBytes)
  \/ \E res \in {"VOICE", "SILENCE"} : VadResolve(1, res)

ScenarioSpec == Init /\ [][ScenarioNext]_vars

----------------------------------------------------------------------------
\* Helpers of the properties

\* The two bytes readInt16LE read the sample s from, low byte first
Int16Bytes(s) ==
  LET u == IF s < 0 THEN s + 65536 ELSE s
  IN  <<u % 256, u \div 256>>

\* The bytes of a pcm frame, sample by sample
RECURSIVE PcmBytes(_)
PcmBytes(pcm) ==
  IF pcm = <<>> THEN <<>> ELSE Int16Bytes(Head(pcm)) \o PcmBytes(Tail(pcm))

\* The bytes of all frames passed to the scorer so far, in order
RECURSIVE FramesBytes(_)
FramesBytes(frames) ==
  IF frames = <<>> THEN <<>>
  ELSE PcmBytes(Head(frames)) \o FramesBytes(Tail(frames))

\* The bytes are consecutive bytes of the stream
Contiguous(bytes) ==
  \A j \in 1..(Len(bytes) - 1) : PosOf(bytes[j + 1]) = PosOf(bytes[j]) + 1

\* Number of whole frames received so far
FramesReceived == received \div FrameBytes

----------------------------------------------------------------------------
\* C1 (as claimed): every segment handed to finalization is exactly the
\* stream from the byte after the wake-triggering frame through the last
\* byte of the chunk whose classification raised the silence event.
C1_BufferingCompleteness ==
  \A k \in 1..Len(finalized) :
    finalized[k].audio = Stream(finalized[k].wakeEnd + 1, finalized[k].trigEnd)

\* C2 (as claimed): the speech buffer is empty whenever the mode is
\* LISTENING (isRecording = false).
C2_BufferEmptyWhenListening == ~isRecording => speechBuffer = <<>>

\* C3 (as claimed): stopUserSpeechRecording runs only while RECORDING, so
\* there are never more finalized segments than wake events.
C3_SilenceOnlyWhileRecording ==
  [][Len(finalized') > Len(finalized)
       => (isRecording /\ Len(finalized') <= Len(wakes'))]_vars

\* C4 (as claimed): a voice-activity classification that fails while
\* RECORDING is treated as SILENCE: finalization runs and the machine is in
\* LISTENING after it.
C4_FailSafeSilence ==
  [][(lastOp' = "vadFail" /\ isRecording)
       => (~isRecording' /\ Len(finalized') = Len(finalized) + 1)]_vars

C6_FrameOrder ==
  [][/\ received' > received => vadPending = <<>>
     /\ Len(vadPending') < Len(vadPending) => vadPending' = Tail(vadPending)]_vars

\* C7 (as claimed): stopUserSpeechRecording never runs with an empty
\* speechBuffer.
C7_NoEmptySegment ==
  \A k \in 1..Len(finalized) : finalized[k].chunks >= 1

\* C8: a wake event fires only in LISTENING, one per 'data' event, and puts
\* the machine in RECORDING; while RECORDING no frame is passed to the
\* scorer and no wake event fires.
C8_EdgeTriggered ==
  [][/\ Len(wakes') > Len(wakes)
          => (~isRecording /\ isRecording' /\ Len(wakes') = Len(wakes) + 1)
     /\ isRecording => (wakes' = wakes /\ scanned' = scanned)]_vars

\* C8 witness: after the wake event two further chunks arrived and a whole
\* frame sits unscanned behind the wake frame, and there is still one wake.
C8_Witness ==
  /\ isRecording
  /\ Len(wakes) = 1
  /\ Len(speechBuffer) = 2
  /\ Len(audioBuffer) >= FrameBytes

\* C9 (as claimed): the residual buffer holds less than one frame, and
\* every frame passed to the scorer is made of consecutive stream bytes.
C9_ResidualBelowFrame ==
  /\ Len(audioBuffer) < FrameBytes
  /\ \A j \in 1..Len(scanned) : Contiguous(PcmBytes(scanned[j]))

\* C10 (as claimed): after a failed save the process keeps handling events
\* and the machine is in LISTENING unless a new wake event has fired.
C10_SaveFailureSurvived ==
  \A k \in 1..Len(saves) :
    saves[k] = "error" => (alive /\ (isRecording => Len(wakes) > k))

\* C11: in the frame-by-frame scenario a keyword frame puts the machine in
\* RECORDING with an empty speech buffer; while RECORDING the speech buffer
\* holds exactly the frames received since the wake frame; each SILENCE
\* finalizes once, with all frames from the one after the wake frame through
\* the silent one (the M SPEECH frames and the SILENCE frame), and leaves
\* the machine in LISTENING.
C11_Scenario ==
  /\ lastOp = "wake" => (isRecording /\ speechBuffer = <<>>)
  /\ isRecording =>
       /\ Len(speechBuffer) = (received - wakes[Len(wakes)]) \div FrameBytes
       /\ \A j \in 1..Len(speechBuffer) : Len(speechBuffer[j]) = FrameBytes
       /\ Len(finalized) = Len(wakes) - 1
  /\ ~isRecording => (vadPending = <<>> /\ Len(finalized) = Len(wakes))
  /\ lastOp = "stop" => ~isRecording
  /\ \A k \in 1..Len(finalized) :
       /\ finalized[k].wakeEnd = wakes[k]
       /\ finalized[k].chunks =
            (finalized[k].trigEnd - finalized[k].wakeEnd) \div FrameBytes
       /\ finalized[k].chunks >= 1
       /\ finalized[k].audio =
            Stream(finalized[k].wakeEnd + 1, finalized[k].trigEnd)

\* C11 witness: the spec's scenario: 3 frames without keyword, the keyword
\* frame, 5 SPEECH frames and the SILENCE frame gave one segment of 6 frames.
C11_Witness ==
  /\ wakes = <<4 * FrameBytes>>
  /\ Len(finalized) = 1
  /\ finalized[1].chunks = 6
  /\ received = 10 * FrameBytes
  /\ ~isRecording

\* A 'data' event of one byte that is scanned without a keyword, and one of
\* a whole frame that starts a new recording
ScanStep ==
  DataListening(1, [j \in 1..((Len(audioBuffer) + 1) \div FrameBytes) |-> -1])

WakeStep ==
  /\ DataListening(FrameBytes,
       [j \in 1..((Len(audioBuffer) + FrameBytes) \div FrameBytes) |-> 0])
  /\ isRecording'

\* C12: right after stopUserSpeechRecording the mode is LISTENING while the
\* save of that cycle is still being written, and whatever downstream steps
\* of earlier cycles are pending, a 'data' event in LISTENING is scanned and
\* can start a new recording.
C12_IngestionNotBlocked ==
  /\ lastOp \in {"stop", "stopIdle"}
       => (~isRecording /\ saves[Len(saves)] = "writing")
  /\ (/\ alive
      /\ ~isRecording
      /\ \E k \in 1..Len(saves) : saves[k] \in PendingStage)
       => (ENABLED ScanStep /\ ENABLED WakeStep)

\* C12 witness: a new recording has started while an earlier cycle waits
\* for its transcription or its response.
C12_Witness ==
  /\ isRecording
  /\ \E k \in 1..Len(saves) :
       saves[k] \in {"transcribing", "reasoning"} /\ finalized[k].rec < Len(wakes)

\* C13: a cycle whose transcription failed has the failure logged, and never
\* reaches the reasoning request, speech output or a timer; the failure
\* callback leaves the mode and the buffers as they were.
C13_TranscriptionFailureAborts ==
  /\ [](\A k \in 1..Len(saves) :
          <<k, "logTranscriptionError">> \in effects
            => /\ <<k, "reason">> \notin effects
               /\ <<k, "speak">> \notin effects
               /\ <<k, "timer">> \notin effects)
  /\ [](\A k \in 1..Len(saves) :
          saves[k] = "noTranscript" => <<k, "logTranscriptionError">> \in effects)
  /\ [][lastOp' = "transcribeFail"
          => UNCHANGED <<isRecording, speechBuffer, audioBuffer, vadPending>>]_vars

\* C13 witness: one cycle's transcription failed while another cycle got a
\* spoken response.
C13_Witness ==
  \E k, j \in 1..Len(saves) :
    /\ saves[k] = "noTranscript"
    /\ <<j, "speak">> \in effects

\* All bytes pushed to a speech buffer so far
RECURSIVE RecordedBytes(_)
RecordedBytes(subs) ==
  IF subs = <<>> THEN <<>> ELSE Head(subs).data \o RecordedBytes(Tail(subs))

\* The set of bytes of a buffer
BytesIn(buf) == {buf[j] : j \in 1..Len(buf)}

\* C14: frames go to the scorer only in LISTENING and chunks to the
\* voice-activity classifier only in RECORDING, no byte goes to both, and
\* no wake event fires while RECORDING.
C14_OneConsumerPerMode ==
  /\ [](BytesIn(FramesBytes(scanned)) \cap BytesIn(RecordedBytes(recorded)) = {})
  /\ [][/\ scanned' # scanned => ~isRecording
        /\ recorded' # recorded => isRecording
        /\ Len(vadPending') > Len(vadPending) => isRecording
        /\ wakes' # wakes => ~isRecording]_vars

\* C14 witness: frames were scanned before and after a recording of two
\* chunks.
C14_Witness ==
  /\ Len(recorded) >= 2
  /\ Len(scanned) >= 2
  /\ ~isRecording
  /\ lastOp = "scan"

\* C15 (as claimed): a SILENCE result that ends a recording belongs to a
\* chunk submitted during that recording.
C15_SilenceEndsOwnRecording ==
  [][(Len(finalized') > Len(finalized) /\ isRecording)
       => finalized'[Len(finalized')].trigRec = Len(wakes)]_vars

\* C16 (as claimed): while the save or the transcription of a cycle is
\* pending the file holds that cycle's audio, and every transcription
\* request reads the audio of its own cycle.
C16_OwnAudioTranscribed ==
  /\ \A k \in 1..Len(saves) :
       saves[k] \in {"writing", "transcribing"} => file = finalized[k].audio
  /\ \A r \in sent : r.audio = finalized[r.cycle].audio

\* C17 (as claimed): the last chunk of every finalized segment is the chunk
\* whose classification raised the silence event.
C17_EndsAtFirstSilence ==
  \A k \in 1..Len(finalized) :
    finalized[k].chunks >= 1
      => PosOf(finalized[k].audio[Len(finalized[k].audio)]) = finalized[k].trigEnd

\* C18: the bytes of the frames passed to the scorer, of the residual
\* buffer and of the chunks pushed to a speech buffer are together exactly
\* the bytes received, each once.
C18_ByteConservation ==
  LET held == FramesBytes(scanned) \o audioBuffer \o RecordedBytes(recorded)
  IN  /\ Len(held) = received
      /\ BytesIn(held) = BytesIn(Stream(1, received))

\* C18 witness: after two wake events bytes sit in all three places.
C18_Witness ==
  /\ Len(wakes) = 2
  /\ audioBuffer # <<>>
  /\ Len(recorded) >= 2
  /\ recorded[1].rec # recorded[Len(recorded)].rec

====
